---------------------------- MODULE Spec2Model ----------------------------
(***************************************************************************)
(* Model of the variant image synchronisation of src/utils.py              *)
(* (handle_variant_update and the functions it calls, fetch_all_products)  *)
(* and of the orders webhook of src/main.py (webhook_orders_updated).      *)
(*                                                                         *)
(* JSON values that may be null are wrapped: <<>> is null (Python None),   *)
(* <<v>> is the value v.  A JSON object is a TLA+ record; a key that is    *)
(* absent from the object is absent from the record's DOMAIN.              *)
(***************************************************************************)
EXTENDS Integers, Sequences, FiniteSets, TLC

VARIABLES
    payload,      \* the event the shop delivers next (its current catalogue)
    source,       \* bytes served at the image URL
    platform,     \* [sep, cwd]: os.sep and os.getcwd() of the host
    dirs,         \* local directories that exist
    files,        \* local files: path -> bytes
    remote,       \* R2 bucket: key -> [src, text]
    calls,        \* side-effecting calls of the last delivery (images or order), in order
    result,       \* how the last delivery ended: "none", "ok", the response or the exception
    redelivered,  \* the last delivery had the same payload and source as the one before
    dirty,        \* payload, source or order changed since the last delivery
    option_values,\* SpecSize: the option values being resolved
    size_result,  \* SpecSize: the outcome of the resolution
    cpc,          \* SpecConc, SpecRace: each work unit's (worker's) position
    cfolder,      \* SpecConc: the folder each work unit creates
    cseen,        \* SpecConc, SpecRace: what each work unit (worker) read
    unreadable,   \* local paths whose open() raises PermissionError
    changed,      \* SpecDetect: what download_image_if_new returned
    order,        \* the order the shop delivers next to the orders webhook
    sheet,        \* Sheet1: rows of twelve cells, columns A to L, the header first
    green,        \* numbers of the rows of Sheet1 with a green background
    pages,        \* SpecPages: what the shop answers for each page number
    page,         \* SpecPages: the page fetch_all_products asks next
    all_products, \* SpecPages: the products fetch_all_products has gathered
    fpc           \* SpecPages: where fetch_all_products is

vars == <<payload, source, platform, dirs, files, remote, calls,
          result, redelivered, dirty, option_values, size_result,
          cpc, cfolder, cseen, unreadable, changed, order, sheet, green,
          pages, page, all_products, fpc>>

orderVars == <<order, sheet, green>>
pageVars == <<pages, page, all_products, fpc>>

None == <<>>
Some(v) == <<v>>

(***************************************************************************)
(* Strings, character by character                                         *)
(***************************************************************************)
Char(s, i) == SubSeq(s, i, i)

Contains(s, sub) ==
    \E i \in 1..(Len(s) - Len(sub) + 1) : SubSeq(s, i, i + Len(sub) - 1) = sub

EndsWith(s, suf) ==
    Len(s) >= Len(suf) /\ SubSeq(s, Len(s) - Len(suf) + 1, Len(s)) = suf

Upper == "ABCDEFGHIJKLMNOPQRSTUVWXYZ"
LowerLetters == "abcdefghijklmnopqrstuvwxyz"
Digits == "0123456789"

CharsOf(s) == {Char(s, i) : i \in 1..Len(s)}
UpperChars == CharsOf(Upper)
DigitChars == CharsOf(Digits)
WordChars == CharsOf(Upper) \cup CharsOf(LowerLetters) \cup CharsOf(Digits) \cup {"_"}

IsDigit(c) == c \in DigitChars

IsWordChar(c) == c \in WordChars

LowerMap ==
    [c \in UpperChars |->
        Char(LowerLetters, CHOOSE i \in 1..Len(Upper) : Char(Upper, i) = c)]

LowerChar(c) == IF c \in UpperChars THEN LowerMap[c] ELSE c

RECURSIVE lower(_)
lower(s) == IF s = "" THEN "" ELSE LowerChar(Head(s)) \o lower(Tail(s))

(***************************************************************************)
(* size_pattern = \b(?:XS|S|M|L|XL|XXL|XXXL)\b|\d+     and its search()     *)
(***************************************************************************)
SizeTokens == {"XS", "S", "M", "L", "XL", "XXL", "XXXL"}

\* \b before position i and after position j of s, around a token of word characters
WordBoundaryAround(s, i, j) ==
    /\ (i = 1 \/ ~IsWordChar(Char(s, i - 1)))
    /\ (j = Len(s) \/ ~IsWordChar(Char(s, j + 1)))

size_pattern_search(s) ==
    \/ \E i \in 1..Len(s) : IsDigit(Char(s, i))
    \/ \E t \in SizeTokens : \E i \in 1..(Len(s) - Len(t) + 1) :
          /\ SubSeq(s, i, i + Len(t) - 1) = t
          /\ WordBoundaryAround(s, i, i + Len(t) - 1)

InvalidChars == CharsOf("<>:\"/\\|?*")

SanitizeChar(c) == IF c \in InvalidChars THEN "_" ELSE c

RECURSIVE sanitize_directory_name(_)
sanitize_directory_name(name) ==
    IF name = "" THEN ""
    ELSE SanitizeChar(Head(name)) \o sanitize_directory_name(Tail(name))

\* next((sanitize_directory_name(v) for v in option_values if size_pattern.search(v)),
\*      "default"): the generator is lazy, and search(None) raises TypeError.
RECURSIVE size_option_of(_)
size_option_of(vals) ==
    IF vals = <<>> THEN [exc |-> "", value |-> "default"]
    ELSE IF Head(vals) = None THEN [exc |-> "TypeError", value |-> ""]
    ELSE IF size_pattern_search(Head(vals)[1])
         THEN [exc |-> "", value |-> sanitize_directory_name(Head(vals)[1])]
         ELSE size_option_of(Tail(vals))

(***************************************************************************)
(* price_text = f"{int(float(price))} DH"                                  *)
(* A price is a decimal string: an optional sign, digits, an optional      *)
(* point and digits.  int() truncates the float toward zero.  (Prices of   *)
(* more than 15 significant digits, where float() rounds, are not drawn.)  *)
(***************************************************************************)
AllDigits(s) == \A i \in 1..Len(s) : IsDigit(Char(s, i))

DigitValues == [c \in DigitChars |-> (CHOOSE i \in 1..Len(Digits) : Char(Digits, i) = c) - 1]

DigitVal(c) == DigitValues[c]

RECURSIVE DigitsValue(_, _)
DigitsValue(s, acc) ==
    IF s = "" THEN acc ELSE DigitsValue(Tail(s), acc * 10 + DigitVal(Head(s)))

Unsigned(s) == IF s # "" /\ Head(s) \in {"-", "+"} THEN Tail(s) ELSE s

PointAt(s) ==
    IF \E i \in 1..Len(s) : Char(s, i) = "."
    THEN CHOOSE i \in 1..Len(s) : Char(s, i) = "."
    ELSE Len(s) + 1

WholePart(s) == SubSeq(Unsigned(s), 1, PointAt(Unsigned(s)) - 1)
FracPart(s) == SubSeq(Unsigned(s), PointAt(Unsigned(s)) + 1, Len(Unsigned(s)))

\* float(price) raises ValueError unless the string is a decimal number
float_ok(price) ==
    /\ AllDigits(WholePart(price))
    /\ AllDigits(FracPart(price))
    /\ Len(WholePart(price)) + Len(FracPart(price)) > 0

\* int(round(float(price)))
int_float_rounded(price) ==
    LET whole == DigitsValue(WholePart(price), 0)
        up == IF FracPart(price) # "" /\ DigitVal(Head(FracPart(price))) >= 5 THEN 1 ELSE 0
    IN  IF price # "" /\ Head(price) = "-" THEN 0 - (whole + up) ELSE whole + up

int_float(price) ==
    IF price # "" /\ Head(price) = "-"
    THEN 0 - DigitsValue(WholePart(price), 0)
    ELSE DigitsValue(WholePart(price), 0)

price_text_of(price) == ToString(int_float(price)) \o " DH"

(***************************************************************************)
(* Bytes and digests.  A blob is decodable by Image.open iff it starts     *)
(* with the magic "jpeg"; hashlib.md5 maps a blob to its digest.           *)
(***************************************************************************)
Decodable(bytes) == Len(bytes) >= 4 /\ SubSeq(bytes, 1, 4) = "jpeg"

md5(bytes) == "md5(" \o bytes \o ")"

(***************************************************************************)
(* dict.get and os.path.join                                               *)
(***************************************************************************)
Get(obj, key, default) == IF key \in DOMAIN obj THEN obj[key] ELSE default

path_join(a, b) == a \o platform.sep \o b

\* bool(x) of a nullable string: None and "" are falsy
Truthy(x) == x # None /\ x[1] # ""

Call(op, key, text, res) == [op |-> op, key |-> key, text |-> text, res |-> res]

\* f maps key k to v, whether or not k was in its domain
Put(f, k, v) == [x \in DOMAIN f \cup {k} |-> IF x = k THEN v ELSE f[x]]

Remove(f, k) == [x \in DOMAIN f \ {k} |-> f[x]]

Log(st, c) == [st EXCEPT !.calls = Append(@, c)]

(***************************************************************************)
(* upload_image_to_r2: s3.upload_fileobj either stores the object, raises  *)
(* ClientError (caught here, returns None) or raises another exception     *)
(* (not caught here).  `upload` is the outcome the bucket gives this call. *)
(***************************************************************************)
upload_image_to_r2(st, image, key, upload) ==
    IF upload = "ok"
    THEN [Log(st, Call("put", key, image.text, "ok"))
             EXCEPT !.remote = Put(@, key, image)]
    ELSE IF upload = "ClientError"
    THEN Log(st, Call("put", key, image.text, "ClientError"))
    ELSE [Log(st, Call("put", key, image.text, "Exception")) EXCEPT !.raised = TRUE]

\* create_directory: if not os.path.exists(path): os.makedirs(path)
\* (makedirs also creates the missing parent, the size directory)
create_directory(st, parent, path) ==
    IF path \notin st.dirs THEN [st EXCEPT !.dirs = @ \cup {parent, path}] ELSE st

\* key = f"{size_option}/{folder_name}/{variant_id}.jpg"
artifact_key(size_option, folder_name, variant_id) ==
    size_option \o "/" \o folder_name \o "/" \o ToString(variant_id) \o ".jpg"

\* add_price_to_image without its except: what upload_image_to_r2 raises escapes
add_price_to_image_uncaught(st, image_path, price, size_option, folder_name, variant_id, upload) ==
    IF image_path \in st.unreadable \/ ~Decodable(st.files[image_path]) \/ ~float_ok(price)
    THEN Log(st, Call("render", image_path, "", "Exception"))
    ELSE
        LET image == [src |-> st.files[image_path], text |-> price_text_of(price)]
            key == artifact_key(size_option, folder_name, variant_id)
            rendered == Log(st, Call("render", image_path, image.text, "ok"))
            up == upload_image_to_r2([rendered EXCEPT !.raised = FALSE], image, key, upload)
        IN  IF up.raised
            THEN [up EXCEPT !.raised = FALSE, !.exc = "Exception"]
            ELSE IF image_path \in DOMAIN up.files
                 THEN [up EXCEPT !.files = Remove(@, image_path),
                                 !.unreadable = @ \ {image_path}]
                 ELSE up

(***************************************************************************)
(* add_price_to_image: everything runs inside try/except Exception, so an  *)
(* exception from Image.open, float() or the upload skips the rest of the  *)
(* body, the os.remove included.                                           *)
(***************************************************************************)
add_price_to_image(st, image_path, price, size_option, folder_name, variant_id, upload) ==
    IF image_path \in st.unreadable \/ ~Decodable(st.files[image_path]) \/ ~float_ok(price)
    THEN Log(st, Call("render", image_path, "", "Exception"))
    ELSE
        LET image == [src |-> st.files[image_path], text |-> price_text_of(price)]
            key == artifact_key(size_option, folder_name, variant_id)
            rendered == Log(st, Call("render", image_path, image.text, "ok"))
            up == upload_image_to_r2([rendered EXCEPT !.raised = FALSE], image, key, upload)
        IN  IF up.raised
            THEN [up EXCEPT !.raised = FALSE]
            ELSE IF image_path \in DOMAIN up.files
                 THEN [up EXCEPT !.files = Remove(@, image_path),
                                 !.unreadable = @ \ {image_path}]
                 ELSE up

(***************************************************************************)
(* download_image_if_new: [st, changed].  `fetch` is what requests.get     *)
(* gives this call: "200", another status, or an exception.  The whole     *)
(* body is inside try/except Exception: open(image_path, "rb") raising on  *)
(* a file that exists but cannot be read ends in return False.             *)
(***************************************************************************)
download_image_if_new(st, image_url, image_path, fetch) ==
    IF fetch # "200"
    THEN [st |-> Log(st, Call("fetch", image_url, "", fetch)), changed |-> FALSE]
    ELSE
        LET image_data == source
            fetched == Log(st, Call("fetch", image_url, image_data, fetch))
        IN  IF image_path \in DOMAIN st.files /\ image_path \in st.unreadable
            THEN [st |-> Log(fetched, Call("open", image_path, "", "PermissionError")),
                  changed |-> FALSE]
            ELSE IF /\ image_path \in DOMAIN st.files
                    /\ md5(st.files[image_path]) = md5(image_data)
            THEN [st |-> fetched, changed |-> FALSE]
            ELSE [st |-> [fetched EXCEPT !.files = Put(@, image_path, image_data)],
                  changed |-> TRUE]

(***************************************************************************)
(* handle_variant_update.  The running state st is [dirs, files, remote,   *)
(* unreadable, calls, exc, raised]; exc names an exception that escaped    *)
(* (nothing in handle_variant_update catches one), after which nothing     *)
(* more runs.                                                              *)
(* out[folder_name] = [fetch, upload] is what the network gives the calls  *)
(* of that placement.                                                      *)
(***************************************************************************)
Raise(st, e) == [st EXCEPT !.exc = e]

\* for image in product.get("images", []): if image["id"] == image_id: ...
RECURSIVE find_image_url(_, _)
find_image_url(images, image_id) ==
    IF images = <<>> THEN [exc |-> "", url |-> None]
    ELSE IF "id" \notin DOMAIN Head(images) THEN [exc |-> "KeyError", url |-> None]
    ELSE IF Some(Head(images).id) = image_id
         THEN [exc |-> "", url |-> Some(Head(images).src)]
         ELSE find_image_url(Tail(images), image_id)

\* "girls" if "girls" in folder else "boys"
folder_name_of_contains(folder) == IF Contains(folder, "girls") THEN "girls" ELSE "boys"

\* "girls" if folder.endswith("girls") else "boys"
folder_name_of(folder) == IF EndsWith(folder, "girls") THEN "girls" ELSE "boys"

\* the body of: for folder in filter(None, [girls_directory, boys_directory])
process_folder(st, folder, image_url, price, size_option, variant_id, out) ==
    LET image_path == path_join(folder, ToString(variant_id) \o ".jpg")
        folder_name == folder_name_of(folder)
        dl == download_image_if_new(st, image_url, image_path, out[folder_name].fetch)
    IN  IF dl.changed
        THEN add_price_to_image(dl.st, image_path, price, size_option, folder_name,
                                variant_id, out[folder_name].upload)
        ELSE dl.st

RECURSIVE process_folders(_, _, _, _, _, _, _)
process_folders(st, folders, image_url, price, size_option, variant_id, out) ==
    IF folders = <<>> THEN st
    ELSE process_folders(
            process_folder(st, Head(folders), image_url, price, size_option, variant_id, out),
            Tail(folders), image_url, price, size_option, variant_id, out)

RECURSIVE create_directories(_, _, _)
create_directories(st, parent, folders) ==
    IF folders = <<>> THEN st
    ELSE create_directories(create_directory(st, parent, Head(folders)), parent, Tail(folders))

is_girls_of(product) == Contains(lower(Get(product, "tags", "")), "girls")
is_boys_of(product) == Contains(lower(Get(product, "tags", "")), "boys")

\* boys_directory taken as the else branch of is_girls
folders_of_else_boys(product, size_option) ==
    LET size_directory == path_join(platform.cwd, size_option)
    IN  IF is_girls_of(product) THEN <<path_join(size_directory, "girls")>>
        ELSE <<path_join(size_directory, "boys")>>

\* [boys_directory, girls_directory] without the None entries
folders_of_boys_first(product, size_option) ==
    LET size_directory == path_join(platform.cwd, size_option)
    IN  (IF is_boys_of(product) THEN <<path_join(size_directory, "boys")>> ELSE <<>>)
        \o (IF is_girls_of(product) THEN <<path_join(size_directory, "girls")>> ELSE <<>>)

\* [girls_directory, boys_directory] without the None entries
folders_of(product, size_option) ==
    LET size_directory == path_join(platform.cwd, size_option)
    IN  (IF is_girls_of(product) THEN <<path_join(size_directory, "girls")>> ELSE <<>>)
        \o (IF is_boys_of(product) THEN <<path_join(size_directory, "boys")>> ELSE <<>>)

\* inventory <= 0 (None <= 0 raises TypeError)
out_of_stock(inventory) == inventory[1] <= 0

\* [variant.get('option1', ''), variant.get('option2', ''), variant.get('option3', '')]
option_values_of(variant) ==
    <<Get(variant, "option1", Some("")),
      Get(variant, "option2", Some("")),
      Get(variant, "option3", Some(""))>>

\* the body of: for variant in product.get("variants", [])
process_variant(st, product, variant, out) ==
    LET variant_id == variant.id
        image_id == Get(variant, "image_id", None)
        inventory == Get(variant, "inventory_quantity", Some(0))
        price == Get(variant, "price", "0")
        size == size_option_of(option_values_of(variant))
    IN  IF inventory = None THEN Raise(st, "TypeError")
        ELSE IF out_of_stock(inventory) THEN st
        ELSE IF size.exc # "" THEN Raise(st, size.exc)
        ELSE
            LET folders == folders_of(product, size.value)
                made == create_directories(st, path_join(platform.cwd, size.value), folders)
                found == find_image_url(Get(product, "images", <<>>), image_id)
            IN  IF found.exc # "" THEN Raise(made, found.exc)
                ELSE IF Truthy(found.url)
                     THEN process_folders(made, folders, found.url[1], price,
                                          size.value, variant_id, out)
                     ELSE made

RECURSIVE process_variants(_, _, _, _)
process_variants(st, product, variants, out) ==
    IF variants = <<>> \/ st.exc # "" THEN st
    ELSE process_variants(process_variant(st, product, Head(variants), out),
                          product, Tail(variants), out)

\* if product.get("published_at") is None: continue
published_not_none(product) == Get(product, "published_at", None) # None

\* if not product.get("published_at"): continue
published(product) == Truthy(Get(product, "published_at", None))

process_product(st, product, out) ==
    IF ~published(product) THEN st
    ELSE process_variants(st, product, Get(product, "variants", <<>>), out)

RECURSIVE process_products(_, _, _)
process_products(st, products, out) ==
    IF products = <<>> \/ st.exc # "" THEN st
    ELSE process_products(process_product(st, Head(products), out), Tail(products), out)

\* payload.get("products", [payload])
products_of(p) == Get(p, "products", <<p>>)

handle_variant_update(st, p, out) == process_products(st, products_of(p), out)

(***************************************************************************)
(* The values the shop, the image host and the network are drawn from      *)
(***************************************************************************)
Audiences == {"girls", "boys"}
ImageUrl == "http://x/img.jpg"
PublishedValues == {Some("2024-05-01T10:00:00+01:00"), None}
TagValues == {"girls,new", "Girls,Boys", "new"}
Inventories == {Some(5), Some(0)}
ImageIds == {Some(9), None}
Images == {"jpegA", "jpegB"}
Prices == {"129.00", "129.99"}
SizeOptions == {Some("M"), Some("3/4"), Some("")}

\* what the network gives one placement: [fetch, upload]
Fetched == [fetch |-> "200", upload |-> "ok"]
FetchFailures == {[fetch |-> f, upload |-> "ok"] : f \in {"404", "ConnectionError"}}

\* the second list holds an image entry without "id"
ImageLists == {<<[id |-> 9, src |-> ImageUrl]>>, <<[src |-> ImageUrl]>>}

Posix == [sep |-> "/", cwd |-> "/srv/app"]
Windows == [sep |-> "\\", cwd |-> "C:\\girls"]

variant100 ==
    [id |-> 100, image_id |-> Some(9), inventory_quantity |-> Some(5),
     price |-> "129.00", option1 |-> Some("M"), option2 |-> Some(""),
     option3 |-> Some("")]

\* a products/update webhook body: a bare Product
product1 ==
    [id |-> 1, published_at |-> Some("2024-05-01T10:00:00+01:00"),
     tags |-> "girls,new", variants |-> <<variant100>>,
     images |-> <<[id |-> 9, src |-> ImageUrl]>>]

\* a full-catalogue body {"products": [...]}: two products, three variants
catalogue ==
    [products |->
        <<[product1 EXCEPT !.variants = <<variant100, [variant100 EXCEPT !.id = 101]>>],
          [product1 EXCEPT !.id = 2, !.tags = "boys",
                           !.variants = <<[variant100 EXCEPT !.id = 200]>>]>>]

(***************************************************************************)
(* The shop and the image host change between deliveries                   *)
(***************************************************************************)
with_products(p, ps) == IF "products" \in DOMAIN p THEN [p EXCEPT !.products = ps] ELSE ps[1]

NumProducts == Len(products_of(payload))
NumVariants(i) == Len(products_of(payload)[i].variants)

Edited(p) ==
    /\ p # payload
    /\ payload' = p
    /\ dirty' = TRUE
    /\ UNCHANGED <<source, platform, dirs, files, remote, calls, result,
                   redelivered, option_values, size_result, cpc, cfolder, cseen,
                   unreadable, changed, orderVars, pageVars>>

set_product(i, field, value) ==
    with_products(payload, [products_of(payload) EXCEPT ![i][field] = value])

set_variant(i, j, field, value) ==
    with_products(payload, [products_of(payload) EXCEPT ![i].variants[j][field] = value])

StockChanges(values) ==
    \E i \in 1..NumProducts : \E j \in 1..NumVariants(i) : \E q \in values :
        Edited(set_variant(i, j, "inventory_quantity", q))

ImageAssigned ==
    \E i \in 1..NumProducts : \E j \in 1..NumVariants(i) : \E id \in ImageIds :
        Edited(set_variant(i, j, "image_id", id))

TagsChange(values) ==
    \E i \in 1..NumProducts : \E t \in values : Edited(set_product(i, "tags", t))

PriceChanges ==
    \E i \in 1..NumProducts : \E j \in 1..NumVariants(i) : \E v \in Prices :
        Edited(set_variant(i, j, "price", v))

OptionChanges(k, values) ==
    \E i \in 1..NumProducts : \E j \in 1..NumVariants(i) : \E v \in values :
        Edited(set_variant(i, j, k, v))

ImagesChange ==
    \E i \in 1..NumProducts : \E imgs \in ImageLists : Edited(set_product(i, "images", imgs))

PublicationChanges ==
    \E i \in 1..NumProducts : \E v \in PublishedValues :
        Edited(set_product(i, "published_at", v))

SourceChanges(blobs) ==
    \E b \in blobs :
        /\ b # source
        /\ source' = b
        /\ dirty' = TRUE
        /\ UNCHANGED <<payload, platform, dirs, files, remote, calls, result,
                       redelivered, option_values, size_result, cpc, cfolder, cseen,
                   unreadable, changed, orderVars, pageVars>>

(***************************************************************************)
(* One delivery: the whole of handle_variant_update(payload)               *)
(***************************************************************************)
Deliver(out) ==
    LET st == handle_variant_update(
                  [dirs |-> dirs, files |-> files, remote |-> remote,
                   unreadable |-> unreadable,
                   calls |-> <<>>, exc |-> "", raised |-> FALSE],
                  payload, out)
    IN  /\ dirs' = st.dirs
        /\ files' = st.files
        /\ remote' = st.remote
        /\ calls' = st.calls
        /\ result' = IF st.exc = "" THEN "ok" ELSE st.exc
        /\ redelivered' = (result # "none" /\ ~dirty)
        /\ dirty' = FALSE
        /\ unreadable' = st.unreadable
        /\ UNCHANGED <<payload, source, platform, option_values, size_result,
                       cpc, cfolder, cseen, changed, orderVars, pageVars>>

\* the network treats both placements of the delivery alike
Delivery(outcomes) == \E o \in outcomes : Deliver([a \in Audiences |-> o])

NoOrders == order = <<>> /\ sheet = <<>> /\ green = {}

NoPages == pages = <<>> /\ page = 1 /\ all_products = <<>> /\ fpc = "none"

Idle ==
    /\ NoOrders
    /\ NoPages
    /\ unreadable = {}
    /\ changed = <<>>
    /\ dirs = {}
    /\ files = <<>>
    /\ remote = <<>>
    /\ calls = <<>>
    /\ result = "none"
    /\ redelivered = FALSE
    /\ dirty = FALSE
    /\ cpc = <<>>
    /\ cfolder = <<>>
    /\ cseen = <<>>

(***************************************************************************)
(* Spec: deliveries of one product with one variant while its stock, its   *)
(* image, its tags and its publication change, the image host changes the  *)
(* picture and fetches fail.                                               *)
(***************************************************************************)
Init ==
    /\ payload = product1
    /\ source = "jpegA"
    /\ platform = Posix
    /\ Idle
    /\ option_values = <<>>
    /\ size_result = <<>>

Next ==
    \/ Delivery({Fetched} \cup FetchFailures)
    \/ StockChanges(Inventories)
    \/ ImageAssigned
    \/ TagsChange(TagValues)
    \/ PublicationChanges
    \/ SourceChanges(Images)

Spec == Init /\ [][Next]_vars

(***************************************************************************)
(* SpecFirst: deliveries of one classified product while its tags, its     *)
(* publication and its variant's price change, the image host serves a     *)
(* picture or bytes that are no picture, fetches fail and uploads raise.   *)
(***************************************************************************)
NextFirst ==
    \/ Delivery({Fetched, [fetch |-> "404", upload |-> "ok"],
                 [fetch |-> "200", upload |-> "Exception"]})
    \/ TagsChange({"girls,new", "Girls,Boys"})
    \/ PublicationChanges
    \/ PriceChanges
    \/ SourceChanges({"jpegA", "garbage"})

SpecFirst == Init /\ [][NextFirst]_vars

(***************************************************************************)
(* SpecKeys: deliveries on a POSIX and on a Windows host, the working      *)
(* directory of the latter holding the word girls, while the tags and the  *)
(* size option change.                                                     *)
(***************************************************************************)
InitKeys ==
    /\ payload = product1
    /\ source = "jpegA"
    /\ platform \in {Posix, Windows}
    /\ Idle
    /\ option_values = <<>>
    /\ size_result = <<>>

NextKeys ==
    \/ Delivery({Fetched})
    \/ TagsChange(TagValues)
    \/ OptionChanges("option1", SizeOptions)

SpecKeys == InitKeys /\ [][NextKeys]_vars

(***************************************************************************)
(* SpecBatch: deliveries of a catalogue of two products and three variants *)
(* while fields arrive as null (inventory_quantity, option1) or are        *)
(* missing (the id of an image entry).                                     *)
(***************************************************************************)
InitBatch ==
    /\ payload = catalogue
    /\ source = "jpegA"
    /\ platform = Posix
    /\ Idle
    /\ option_values = <<>>
    /\ size_result = <<>>

NextBatch ==
    \/ Delivery({Fetched})
    \/ StockChanges({Some(5), None})
    \/ OptionChanges("option1", {Some("M"), None})
    \/ ImagesChange

SpecBatch == InitBatch /\ [][NextBatch]_vars

(***************************************************************************)
(* SpecSize: the size bucket of the option values of a variant, each       *)
(* option being a string, null or absent.                                  *)
(***************************************************************************)
OptionKeys == {"option1", "option2", "option3"}
OptionValues ==
    {Some("7-8Y"), Some("Blue"), Some(""), Some("XL"), Some("Red"), Some("3/4"),
     Some("SMALL"), None}

ResolveSize ==
    /\ size_result = <<>>
    /\ size_result' = <<size_option_of(option_values_of(option_values))>>
    /\ UNCHANGED <<payload, source, platform, dirs, files, remote, calls, result,
                   redelivered, dirty, option_values, cpc, cfolder, cseen,
                   unreadable, changed, orderVars, pageVars>>

OptionSet ==
    \E k \in OptionKeys : \E v \in OptionValues :
        /\ option_values' = [x \in DOMAIN option_values \cup {k} |->
                                IF x = k THEN v ELSE option_values[x]]
        /\ size_result' = <<>>
        /\ UNCHANGED <<payload, source, platform, dirs, files, remote, calls, result,
                       redelivered, dirty, cpc, cfolder, cseen,
                   unreadable, changed, orderVars, pageVars>>

OptionRemoved ==
    \E k \in DOMAIN option_values :
        /\ option_values' = [x \in DOMAIN option_values \ {k} |-> option_values[x]]
        /\ size_result' = <<>>
        /\ UNCHANGED <<payload, source, platform, dirs, files, remote, calls, result,
                       redelivered, dirty, cpc, cfolder, cseen,
                   unreadable, changed, orderVars, pageVars>>

InitSize ==
    /\ payload = product1
    /\ source = "jpegA"
    /\ platform = Posix
    /\ Idle
    /\ option_values = <<>>
    /\ size_result = <<>>

NextSize == ResolveSize \/ OptionSet \/ OptionRemoved

SpecSize == InitSize /\ [][NextSize]_vars

(***************************************************************************)
(* SpecConc: the work of handle_variant_update for one placement of one    *)
(* variant, run by NumWorkers work units at once with no lock, one system  *)
(* call at a time.  Two units work in the same folder, for two variants or *)
(* for the same one.  The image is a picture, every fetch and upload       *)
(* succeeds: a unit can only fail through what another unit does.          *)
(***************************************************************************)
NumWorkers == 2
Workers == 1..NumWorkers

unit_of(variant) ==
    [id |-> variant.id, price |-> variant.price, size |-> "M", folder_name |-> "girls",
     parent |-> path_join(platform.cwd, "M"),
     folder |-> path_join(path_join(platform.cwd, "M"), "girls"),
     path |-> path_join(path_join(path_join(platform.cwd, "M"), "girls"),
                        ToString(variant.id) \o ".jpg")]

Units == {unit_of(variant100), unit_of([variant100 EXCEPT !.id = 101])}

Terminal == {"done", "unchanged", "FileExistsError", "download_failed", "render_failed"}

Step(w, to) == cpc' = [cpc EXCEPT ![w] = to]

ConcUnchanged == UNCHANGED <<payload, source, platform, calls, result, redelivered, dirty,
                             option_values, size_result, cfolder,
                             unreadable, changed, orderVars, pageVars>>

\* create_directory: os.path.exists(path)
UnitDirExists(w) ==
    /\ cpc[w] = "start"
    /\ Step(w, IF cfolder[w].folder \in dirs THEN "fetch" ELSE "makedirs")
    /\ UNCHANGED <<dirs, files, remote, cseen>> /\ ConcUnchanged

\* create_directory: os.makedirs(path) raises FileExistsError if the leaf exists;
\* nothing in handle_variant_update catches it
UnitMakedirs(w) ==
    /\ cpc[w] = "makedirs"
    /\ IF cfolder[w].folder \in dirs
       THEN Step(w, "FileExistsError") /\ UNCHANGED dirs
       ELSE Step(w, "fetch") /\ dirs' = dirs \cup {cfolder[w].parent, cfolder[w].folder}
    /\ UNCHANGED <<files, remote, cseen>> /\ ConcUnchanged

\* download_image_if_new: requests.get, md5 of the content
UnitFetch(w) ==
    /\ cpc[w] = "fetch"
    /\ cseen' = [cseen EXCEPT ![w] = source]
    /\ Step(w, "path_exists")
    /\ UNCHANGED <<dirs, files, remote>> /\ ConcUnchanged

\* download_image_if_new: os.path.exists(image_path)
UnitPathExists(w) ==
    /\ cpc[w] = "path_exists"
    /\ Step(w, IF cfolder[w].path \in DOMAIN files THEN "read" ELSE "write")
    /\ UNCHANGED <<dirs, files, remote, cseen>> /\ ConcUnchanged

\* download_image_if_new: open(image_path, "rb"), compare the digests; a file that
\* is gone raises FileNotFoundError, caught: return False
UnitRead(w) ==
    /\ cpc[w] = "read"
    /\ Step(w, IF cfolder[w].path \notin DOMAIN files THEN "download_failed"
               ELSE IF md5(files[cfolder[w].path]) = md5(cseen[w]) THEN "unchanged"
               ELSE "write")
    /\ UNCHANGED <<dirs, files, remote, cseen>> /\ ConcUnchanged

\* download_image_if_new: open(image_path, "wb"), write
UnitWrite(w) ==
    /\ cpc[w] = "write"
    /\ files' = Put(files, cfolder[w].path, cseen[w])
    /\ Step(w, "open")
    /\ UNCHANGED <<dirs, remote, cseen>> /\ ConcUnchanged

\* add_price_to_image: Image.open(image_path); a file that is gone raises, caught
UnitOpen(w) ==
    /\ cpc[w] = "open"
    /\ IF cfolder[w].path \in DOMAIN files
       THEN Step(w, "upload") /\ cseen' = [cseen EXCEPT ![w] = files[cfolder[w].path]]
       ELSE Step(w, "render_failed") /\ UNCHANGED cseen
    /\ UNCHANGED <<dirs, files, remote>> /\ ConcUnchanged

\* add_price_to_image: draw the price, upload_image_to_r2(img, key)
UnitUpload(w) ==
    /\ cpc[w] = "upload"
    /\ remote' = Put(remote,
                     artifact_key(cfolder[w].size, cfolder[w].folder_name, cfolder[w].id),
                     [src |-> cseen[w], text |-> price_text_of(cfolder[w].price)])
    /\ Step(w, "remove_check")
    /\ UNCHANGED <<dirs, files, cseen>> /\ ConcUnchanged

\* add_price_to_image: if os.path.exists(image_path)
UnitRemoveCheck(w) ==
    /\ cpc[w] = "remove_check"
    /\ Step(w, IF cfolder[w].path \in DOMAIN files THEN "remove" ELSE "done")
    /\ UNCHANGED <<dirs, files, remote, cseen>> /\ ConcUnchanged

\* add_price_to_image: os.remove(image_path); FileNotFoundError is caught
UnitRemove(w) ==
    /\ cpc[w] = "remove"
    /\ files' = IF cfolder[w].path \in DOMAIN files THEN Remove(files, cfolder[w].path)
                ELSE files
    /\ Step(w, "done")
    /\ UNCHANGED <<dirs, remote, cseen>> /\ ConcUnchanged

InitConc ==
    /\ payload = product1
    /\ source = "jpegA"
    /\ platform = Posix
    /\ NoOrders
    /\ NoPages
    /\ unreadable = {}
    /\ changed = <<>>
    /\ dirs = {}
    /\ files = <<>>
    /\ remote = <<>>
    /\ calls = <<>>
    /\ result = "none"
    /\ redelivered = FALSE
    /\ dirty = FALSE
    /\ option_values = <<>>
    /\ size_result = <<>>
    /\ cfolder \in [Workers -> Units]
    /\ cpc = [w \in Workers |-> "start"]
    /\ cseen = [w \in Workers |-> ""]

NextConc ==
    \E w \in Workers :
        \/ UnitDirExists(w)
        \/ UnitMakedirs(w)
        \/ UnitFetch(w)
        \/ UnitPathExists(w)
        \/ UnitRead(w)
        \/ UnitWrite(w)
        \/ UnitOpen(w)
        \/ UnitUpload(w)
        \/ UnitRemoveCheck(w)
        \/ UnitRemove(w)

SpecConc == InitConc /\ [][NextConc]_vars

(***************************************************************************)
(* What the claims speak of, stated on the event itself                    *)
(***************************************************************************)
\* the last step was a delivery: payload is the event just processed
Delivered == result # "none" /\ ~dirty

TheProduct == products_of(payload)[1]
TheVariant == TheProduct.variants[1]

IsPublished(p) == p.published_at # None
Tagged(p, a) ==
    \/ a = "girls" /\ p.tags \in {"girls,new", "Girls,Boys"}
    \/ a = "boys" /\ p.tags \in {"Girls,Boys", "boys"}
Classified(p) == \E a \in Audiences : Tagged(p, a)
InStock(v) == v.inventory_quantity # None /\ v.inventory_quantity[1] > 0
Resolves(p, v) ==
    \E k \in 1..Len(p.images) :
        "id" \in DOMAIN p.images[k] /\ Some(p.images[k].id) = v.image_id

BucketOf(v) ==
    CASE v.option1 = Some("M") -> "M"
      [] v.option1 = Some("3/4") -> "3_4"
      [] OTHER -> "default"
KeyOf(v, a) == BucketOf(v) \o "/" \o a \o "/" \o ToString(v.id) \o ".jpg"

Count(cs, op, key) == Cardinality({i \in DOMAIN cs : cs[i].op = op /\ cs[i].key = key})
NumOps(cs, op) == Cardinality({i \in DOMAIN cs : cs[i].op = op})
AllFetched(cs) == \A i \in DOMAIN cs : cs[i].op = "fetch" => cs[i].res = "200"
SomeFetchFailed(cs) == \E i \in DOMAIN cs : cs[i].op = "fetch" /\ cs[i].res # "200"

\* a delivery of the event and image of the delivery before it
Redelivery ==
    /\ result # "none" /\ ~dirty
    /\ payload' = payload /\ source' = source
    /\ redelivered'

\* a delivery (stuttering steps aside)
DeliveryStep == payload' = payload /\ source' = source /\ result' # "none" /\ ~dirty'

\* C1: the same event delivered twice in a row, the image unchanged and fetched both
\* times: one render and one put per placement in the first delivery, none in the second.
C1_RedeliveryDoesNothing ==
    [][(/\ Redelivery
        /\ IsPublished(TheProduct) /\ InStock(TheVariant) /\ Resolves(TheProduct, TheVariant)
        /\ AllFetched(calls) /\ AllFetched(calls'))
       => /\ \A a \in Audiences : Tagged(TheProduct, a) =>
                 /\ Count(calls, "put", KeyOf(TheVariant, a)) = 1
                 /\ Count(calls', "put", KeyOf(TheVariant, a)) = 0
          /\ NumOps(calls, "render") = NumOps(calls, "put")
          /\ NumOps(calls', "render") = 0]_vars

\* C2: a variant whose artifacts the previous delivery created and which is now
\* delivered with inventory <= 0: exactly one delete per created key.
C2_OutOfStockDeletes ==
    [][(/\ DeliveryStep
        /\ IsPublished(TheProduct)
        /\ TheVariant.inventory_quantity # None /\ ~InStock(TheVariant))
       => \A i \in DOMAIN calls :
             (calls[i].op = "put" /\ calls[i].res = "ok")
             => Count(calls', "delete", calls[i].key) = 1]_vars

\* C3: after a completed delivery the bucket holds no artifact of a variant the event
\* reports as out of stock or without a resolvable image.  (At most one artifact per
\* variant id and placement: remote is a function of the key.)
C3_NoStaleArtifact ==
    (/\ Delivered /\ result = "ok"
     /\ IsPublished(TheProduct) /\ Classified(TheProduct)
     /\ TheVariant.inventory_quantity # None
     /\ (~InStock(TheVariant) \/ ~Resolves(TheProduct, TheVariant)))
    => \A k \in DOMAIN remote : ~EndsWith(k, "/" \o ToString(TheVariant.id) \o ".jpg")

\* C4: delivering a product tagged neither girls nor boys puts nothing, deletes
\* nothing and creates no local file or directory; artifacts synced earlier stay.
C4_UnclassifiedUntouched ==
    [][(~Classified(TheProduct) /\ payload' = payload /\ source' = source)
       => /\ remote' = remote
          /\ files' = files
          /\ dirs' = dirs
          /\ NumOps(calls', "put") = 0
          /\ NumOps(calls', "delete") = 0]_vars

\* C4's case: an unclassified product was delivered, out of stock, while the bucket
\* holds the artifact synced when it was still tagged girls
C4_Witness ==
    /\ Delivered /\ result = "ok"
    /\ ~Classified(TheProduct) /\ IsPublished(TheProduct)
    /\ ~InStock(TheVariant)
    /\ KeyOf(TheVariant, "girls") \in DOMAIN remote
    /\ calls = <<>>

\* C9: a failed fetch makes the variant ineligible: no artifact of it remains.
C9_FetchFailureDeletes ==
    (/\ Delivered /\ result = "ok"
     /\ IsPublished(TheProduct) /\ InStock(TheVariant) /\ Resolves(TheProduct, TheVariant)
     /\ SomeFetchFailed(calls))
    => \A a \in Audiences : Tagged(TheProduct, a) => KeyOf(TheVariant, a) \notin DOMAIN remote

PriceTextOf(v) ==
    CASE v.price = "129.00" -> "129 DH"
      [] v.price = "129.99" -> "129 DH"

NumFlags(p) == Cardinality({a \in Audiences : Tagged(p, a)})

PutsAsExpected(cs) ==
    /\ NumOps(cs, "put") = NumFlags(TheProduct)
    /\ \A a \in Audiences : Tagged(TheProduct, a) =>
          /\ Count(cs, "put", KeyOf(TheVariant, a)) = 1
          /\ \A i \in DOMAIN cs :
                (cs[i].op = "put" /\ cs[i].key = KeyOf(TheVariant, a))
                => cs[i].text = PriceTextOf(TheVariant)

NoArtifact == \A a \in Audiences : KeyOf(TheVariant, a) \notin DOMAIN remote

\* C5 as stated: the delivery of a classified product with a variant in stock, a
\* resolvable image and no artifact yet issues one put per true audience flag, to
\* {sizeBucket}/{audience}/{variantId}.jpg, the text being the truncated price and " DH".
C5_FirstDeliveryPuts ==
    [][(/\ DeliveryStep
        /\ Classified(TheProduct) /\ InStock(TheVariant)
        /\ Resolves(TheProduct, TheVariant) /\ NoArtifact)
       => PutsAsExpected(calls')]_vars

LocalPathOf(v, a) ==
    platform.cwd \o platform.sep \o BucketOf(v) \o platform.sep \o a
        \o platform.sep \o ToString(v.id) \o ".jpg"

Rendered(cs) == \A i \in DOMAIN cs : cs[i].op = "render" => cs[i].res = "ok"

NoSameFileLeft ==
    \A a \in Audiences :
        LocalPathOf(TheVariant, a) \in DOMAIN files => files[LocalPathOf(TheVariant, a)] # source

\* C5 amended: the same, for a published product whose image fetch answers 200 with
\* bytes that differ from a file left at the placement's local path and that render.
C5_FirstDeliveryOfPublishedPuts ==
    [][(/\ DeliveryStep
        /\ Classified(TheProduct) /\ InStock(TheVariant)
        /\ Resolves(TheProduct, TheVariant) /\ NoArtifact
        /\ IsPublished(TheProduct)
        /\ AllFetched(calls')
        /\ Rendered(calls')
        /\ NoSameFileLeft)
       => PutsAsExpected(calls')]_vars

\* C5's case: the scenario of the claim was delivered, with one put of "129 DH"
C5_Witness ==
    /\ Delivered /\ result = "ok"
    /\ TheProduct.tags = "girls,new" /\ TheVariant.price = "129.00"
    /\ TheVariant.option1 = Some("M") /\ TheVariant.id = 100
    /\ calls # <<>>
    /\ calls[Len(calls)] = Call("put", "M/girls/100.jpg", "129 DH", "ok")
    /\ NumOps(calls, "put") = 1
    /\ remote = ("M/girls/100.jpg" :> [src |-> "jpegA", text |-> "129 DH"])

NumSlashes(k) == Cardinality({i \in 1..Len(k) : Char(k, i) = "/"})

\* C8: every key put is {bucket}/{audience}/{variantId}.jpg, three segments joined
\* by "/", the audience being that of the local folder the image was written to,
\* whatever the host's separator and working directory.
C8_KeyIsThreeSegments ==
    Delivered =>
        \A i \in DOMAIN calls : calls[i].op = "put" =>
            /\ NumSlashes(calls[i].key) = 2
            /\ \E a \in Audiences :
                  /\ calls[i].key = KeyOf(TheVariant, a)
                  /\ i > 1 /\ calls[i - 1].op = "render"
                  /\ calls[i - 1].key = LocalPathOf(TheVariant, a)

\* C8's case: on the Windows host, a size with a slash, the boys placement was put
C8_Witness ==
    /\ Delivered /\ platform = Windows
    /\ TheVariant.option1 = Some("3/4")
    /\ \E i \in DOMAIN calls : calls[i].op = "put" /\ calls[i].key = "3_4/boys/100.jpg"

ProductAt(i) == products_of(payload)[i]
VariantAt(i, j) == ProductAt(i).variants[j]

WellFormed(p, v) ==
    /\ v.inventory_quantity # None
    /\ v.option1 # None
    /\ \A k \in 1..Len(p.images) : "id" \in DOMAIN p.images[k]

\* C6: whatever fails in a variant, every later variant of the event is processed:
\* each well-formed variant in stock with a resolvable image gets its put.
C6_EveryVariantProcessed ==
    Delivered =>
        \A i \in 1..NumProducts : \A j \in 1..NumVariants(i) :
            (/\ IsPublished(ProductAt(i))
             /\ WellFormed(ProductAt(i), VariantAt(i, j))
             /\ InStock(VariantAt(i, j))
             /\ Resolves(ProductAt(i), VariantAt(i, j)))
            => \A a \in Audiences : Tagged(ProductAt(i), a) =>
                  Count(calls, "put", KeyOf(VariantAt(i, j), a)) = 1

OptionAt(k) == IF k \in DOMAIN option_values THEN option_values[k] ELSE Some("")
HasSizeToken(x) == x \in {Some("7-8Y"), Some("XL"), Some("3/4")}
SanitizedOption(x) == IF x = Some("3/4") THEN "3_4" ELSE x[1]
FirstSizeToken ==
    IF HasSizeToken(OptionAt("option1")) THEN SanitizedOption(OptionAt("option1"))
    ELSE IF HasSizeToken(OptionAt("option2")) THEN SanitizedOption(OptionAt("option2"))
    ELSE IF HasSizeToken(OptionAt("option3")) THEN SanitizedOption(OptionAt("option3"))
    ELSE "default"

\* C7: for every triple of option values, empty, absent and null ones included, the
\* bucket is the first value in order that holds a size token, sanitized, and
\* "default" when none does.
C7_BucketIsFirstSizeToken ==
    size_result # <<>> => size_result[1] = [exc |-> "", value |-> FirstSizeToken]

\* what the units leave in the bucket when they run one after the other
SequentialRemote ==
    [k \in {artifact_key(cfolder[w].size, cfolder[w].folder_name, cfolder[w].id) :
                w \in Workers} |-> [src |-> "jpegA", text |-> "129 DH"]]

\* C10: whatever the interleaving, no work unit fails because of another and, all
\* units ended, the bucket holds what a sequential run leaves.
C10_ConcurrentUnitsSafe ==
    /\ \A w \in Workers :
          cpc[w] \notin {"FileExistsError", "download_failed", "render_failed"}
    /\ (\A w \in Workers : cpc[w] \in Terminal) => remote = SequentialRemote

RenderFailedAt(cs, path) ==
    \E i \in DOMAIN cs : cs[i].op = "render" /\ cs[i].key = path /\ cs[i].res # "ok"

\* C11: a render that fails in one delivery is caught, that delivery puts nothing for
\* the placement, and the next delivery of the same event attempts the render of that
\* variant and placement again.
C11_RenderFailureRetried ==
    [][(/\ Redelivery
        /\ AllFetched(calls) /\ AllFetched(calls'))
       => \A a \in Audiences :
             RenderFailedAt(calls, LocalPathOf(TheVariant, a))
             => /\ result = "ok"
                /\ Count(calls, "put", KeyOf(TheVariant, a)) = 0
                /\ Count(calls', "render", LocalPathOf(TheVariant, a)) = 1]_vars

(***************************************************************************)
(* SpecDetect: download_image_if_new called for one local path while the   *)
(* file there is written, removed and made unreadable or readable by the   *)
(* host, the image host changes the picture and fetches fail.              *)
(***************************************************************************)
ImagePath == "/srv/app/M/girls/100.jpg"

\* the host writes bytes at the path (a file it creates is readable)
FileWritten(blobs) ==
    \E b \in blobs :
        /\ files' = Put(files, ImagePath, b)
        /\ changed' = <<>>
        /\ UNCHANGED <<payload, source, platform, dirs, remote, calls, result,
                       redelivered, dirty, option_values, size_result, cpc, cfolder,
                       cseen, unreadable, orderVars, pageVars>>

FileRemoved ==
    /\ ImagePath \in DOMAIN files
    /\ files' = Remove(files, ImagePath)
    /\ unreadable' = unreadable \ {ImagePath}
    /\ changed' = <<>>
    /\ UNCHANGED <<payload, source, platform, dirs, remote, calls, result,
                   redelivered, dirty, option_values, size_result, cpc, cfolder,
                   cseen, orderVars, pageVars>>

\* chmod: the file at the path becomes unreadable or readable
PermissionChanges ==
    /\ ImagePath \in DOMAIN files
    /\ unreadable' = IF ImagePath \in unreadable THEN unreadable \ {ImagePath}
                     ELSE unreadable \cup {ImagePath}
    /\ changed' = <<>>
    /\ UNCHANGED <<payload, source, platform, dirs, files, remote, calls, result,
                   redelivered, dirty, option_values, size_result, cpc, cfolder,
                   cseen, orderVars, pageVars>>

\* changed = download_image_if_new(image_url, image_path)
Detect(fetch) ==
    LET dl == download_image_if_new(
                  [dirs |-> dirs, files |-> files, remote |-> remote,
                   unreadable |-> unreadable,
                   calls |-> <<>>, exc |-> "", raised |-> FALSE],
                  ImageUrl, ImagePath, fetch)
    IN  /\ files' = dl.st.files
        /\ calls' = dl.st.calls
        /\ changed' = <<dl.changed>>
        /\ UNCHANGED <<payload, source, platform, dirs, remote, result,
                       redelivered, dirty, option_values, size_result, cpc, cfolder,
                       cseen, unreadable, orderVars, pageVars>>

Detection(fetches) == \E fetch \in fetches : Detect(fetch)

NextDetect ==
    \/ Detection({"200", "404", "ConnectionError"})
    \/ FileWritten({"jpegA", "jpegB"})
    \/ FileRemoved
    \/ PermissionChanges
    \/ SourceChanges(Images)

SpecDetect == Init /\ [][NextDetect]_vars

\* a call of download_image_if_new whose fetch answered 200 (stuttering steps aside)
DetectStep == changed' # <<>> /\ source' = source /\ calls' # <<>> /\ AllFetched(calls')

Absent(path) == path \notin DOMAIN files
CannotBeRead(path) == path \in DOMAIN files /\ path \in unreadable
DigestDiffers(path) == path \in DOMAIN files /\ md5(files[path]) # md5(source)

\* C12: given a successful fetch, download_image_if_new reports "changed" iff the
\* existing location is absent, cannot be read or holds bytes of another digest than
\* the fetched bytes, and when it reports "unchanged" the file is left as it was.
C12_ChangedIffAbsentUnreadableOrDiffers ==
    [][DetectStep
       => /\ changed'[1] = (\/ Absent(ImagePath)
                            \/ CannotBeRead(ImagePath)
                            \/ DigestDiffers(ImagePath))
          /\ (~changed'[1] => files' = files)]_vars

\* C13: after add_price_to_image returned for a placement, on success, on a render
\* error and on an upload error alike, the local file written for it is gone.
C13_LocalFileCleanedUp ==
    Delivered =>
        \A i \in DOMAIN calls : calls[i].op = "render" => calls[i].key \notin DOMAIN files

(***************************************************************************)
(* SpecUploads: deliveries of the catalogue, its first product tagged both *)
(* girls and boys, while the image host changes the picture and the bucket *)
(* accepts an upload, refuses it (ClientError) or the connection to it     *)
(* breaks (another exception), per placement.                              *)
(***************************************************************************)
UploadOutcomes == {[fetch |-> "200", upload |-> u] : u \in {"ok", "ClientError", "Exception"}}

DeliveryPerPlacement(outcomes) ==
    \E g \in outcomes : \E b \in outcomes : Deliver([a \in Audiences |-> IF a = "girls" THEN g ELSE b])

InitUploads ==
    /\ payload = [catalogue EXCEPT !.products[1].tags = "Girls,Boys"]
    /\ source = "jpegA"
    /\ platform = Posix
    /\ Idle
    /\ option_values = <<>>
    /\ size_result = <<>>

NextUploads ==
    \/ DeliveryPerPlacement(UploadOutcomes)
    \/ SourceChanges(Images)

SpecUploads == InitUploads /\ [][NextUploads]_vars

\* the placements of the event: (product, variant, audience) of every eligible variant
Placements ==
    {t \in (1..NumProducts) \X (1..2) \X Audiences :
        /\ t[2] <= NumVariants(t[1])
        /\ IsPublished(ProductAt(t[1]))
        /\ InStock(VariantAt(t[1], t[2]))
        /\ Resolves(ProductAt(t[1]), VariantAt(t[1], t[2]))
        /\ Tagged(ProductAt(t[1]), t[3])}

PutAt(cs, i) == cs[i].op = "put"

\* C14: a put that fails, with ClientError or any other exception, is caught in its
\* work unit: the delivery ends normally, every placement of every variant of every
\* product of the event is fetched, and every placement with no local file left over
\* gets its put attempted, the successful ones ending in the bucket.
C14_FailedPutDoesNotAbort ==
    [][DeliveryStep
       => /\ result' = "ok"
          /\ NumOps(calls', "fetch") = Cardinality(Placements)
          /\ \A t \in Placements :
                LET v == VariantAt(t[1], t[2])
                IN  LocalPathOf(v, t[3]) \notin DOMAIN files
                    => /\ Count(calls', "put", KeyOf(v, t[3])) = 1
                       /\ \A i \in DOMAIN calls' :
                             (PutAt(calls', i) /\ calls'[i].key = KeyOf(v, t[3])
                              /\ calls'[i].res = "ok")
                             => KeyOf(v, t[3]) \in DOMAIN remote']_vars

\* C14's case: the girls uploads of product 1 failed, one of them with an exception
\* other than ClientError, and the boys placement of product 2 was still put
C14_Witness ==
    /\ Delivered /\ result = "ok"
    /\ \E i \in DOMAIN calls : \E k \in DOMAIN calls :
          /\ i < k
          /\ PutAt(calls, i) /\ calls[i].key = "M/girls/100.jpg" /\ calls[i].res = "Exception"
          /\ PutAt(calls, k) /\ calls[k].key = "M/boys/200.jpg" /\ calls[k].res = "ok"
    /\ "M/boys/200.jpg" \in DOMAIN remote
    /\ "M/girls/100.jpg" \notin DOMAIN remote

(***************************************************************************)
(* SpecOrder: deliveries of the catalogue while the tags of its products   *)
(* and the stock of its variants change; every fetch and upload succeeds.  *)
(***************************************************************************)
NextOrder ==
    \/ Delivery({Fetched})
    \/ TagsChange(TagValues)
    \/ StockChanges(Inventories)

SpecOrder == InitBatch /\ [][NextOrder]_vars

\* event order: products, then variants, then girls before boys
Before(t, u) ==
    \/ t[1] < u[1]
    \/ t[1] = u[1] /\ t[2] < u[2]
    \/ t[1] = u[1] /\ t[2] = u[2] /\ t[3] = "girls" /\ u[3] = "boys"

Rank(t) == Cardinality({u \in Placements : Before(u, t)}) + 1

\* the number of fetches among the first i calls
FetchIndex(cs, i) == Cardinality({k \in 1..i : cs[k].op = "fetch"})

\* C15: within a delivery the placements are processed in event order, products, then
\* variants, then girls before boys, each one fetched, rendered and put before the
\* next one is fetched, and each put names the audience of the folder of its render.
C15_ProcessedInEventOrder ==
    (Delivered /\ result = "ok") =>
        /\ NumOps(calls, "fetch") = Cardinality(Placements)
        /\ \A i \in DOMAIN calls :
              /\ calls[i].op \in {"render", "put"}
                 => \E t \in Placements :
                       LET v == VariantAt(t[1], t[2])
                       IN  /\ Rank(t) = FetchIndex(calls, i)
                           /\ i > 1
                           /\ calls[i].op = "render"
                              => /\ calls[i].key = LocalPathOf(v, t[3])
                                 /\ calls[i - 1].op = "fetch"
                           /\ calls[i].op = "put"
                              => /\ calls[i].key = KeyOf(v, t[3])
                                 /\ calls[i - 1].op = "render"
                                 /\ calls[i - 1].key = LocalPathOf(v, t[3])
              /\ calls[i].op = "fetch"
                 => (i = 1 \/ calls[i - 1].op \in {"put", "fetch"})

\* C15's case: variant 100 out of stock, product 1 tagged both: the girls placement of
\* variant 101 was put before its boys placement, and that before product 2's
C15_Witness ==
    /\ Delivered /\ result = "ok"
    /\ ~InStock(VariantAt(1, 1))
    /\ calls # <<>> /\ Len(calls) = 9
    /\ calls[3].op = "put" /\ calls[3].key = "M/girls/101.jpg"
    /\ calls[6].op = "put" /\ calls[6].key = "M/boys/101.jpg"
    /\ calls[9].op = "put" /\ calls[9].key = "M/boys/200.jpg"

(***************************************************************************)
(* SpecPublished: deliveries of the catalogue while the published_at of    *)
(* its products is set to a date, to null, to "" or left out of the event  *)
(* and their tags change; every fetch and upload succeeds.                 *)
(***************************************************************************)
PublicationValues == PublishedValues \cup {Some("")}

PublicationSet(values) ==
    \E i \in 1..NumProducts : \E v \in values :
        Edited(with_products(payload,
            [products_of(payload) EXCEPT ![i] =
                [k \in DOMAIN @ \cup {"published_at"} |->
                    IF k = "published_at" THEN v ELSE @[k]]]))

\* the event carries no published_at for the product
PublicationRemoved ==
    \E i \in 1..NumProducts :
        Edited(with_products(payload,
            [products_of(payload) EXCEPT ![i] =
                [k \in DOMAIN @ \ {"published_at"} |-> @[k]]]))

NextPublished ==
    \/ Delivery({Fetched})
    \/ PublicationSet(PublicationValues)
    \/ PublicationRemoved
    \/ TagsChange({"Girls,Boys"})

SpecPublished == InitBatch /\ [][NextPublished]_vars

Unpublished(p) == "published_at" \notin DOMAIN p \/ p.published_at \in {None, Some("")}

PublishedPlacements ==
    {t \in (1..NumProducts) \X (1..2) \X Audiences :
        /\ t[2] <= NumVariants(t[1])
        /\ ~Unpublished(ProductAt(t[1]))
        /\ InStock(VariantAt(t[1], t[2]))
        /\ Resolves(ProductAt(t[1]), VariantAt(t[1], t[2]))
        /\ Tagged(ProductAt(t[1]), t[3])}

DirsOf(t) ==
    {platform.cwd \o platform.sep \o BucketOf(VariantAt(t[1], t[2])),
     platform.cwd \o platform.sep \o BucketOf(VariantAt(t[1], t[2]))
        \o platform.sep \o t[3]}

\* C16: a delivery processes no variant of a product whose published_at is missing,
\* null or empty: nothing is fetched, rendered or put for it, no directory is created
\* for it and the artifacts the bucket holds for it stay as they are.
C16_UnpublishedSkipped ==
    [][DeliveryStep
       => /\ NumOps(calls', "fetch") = Cardinality(PublishedPlacements)
          /\ dirs' \ dirs \subseteq UNION {DirsOf(t) : t \in PublishedPlacements}
          /\ \A i \in 1..NumProducts : Unpublished(ProductAt(i)) =>
                \A j \in 1..NumVariants(i) : \A a \in Audiences :
                    LET key == KeyOf(VariantAt(i, j), a)
                        path == LocalPathOf(VariantAt(i, j), a)
                    IN  /\ Count(calls', "put", key) = 0
                        /\ Count(calls', "render", path) = 0
                        /\ path \notin DOMAIN files'
                        /\ (key \in DOMAIN remote') = (key \in DOMAIN remote)
                        /\ key \in DOMAIN remote => remote'[key] = remote[key]]_vars

\* C16's case: product 1, synced earlier, was delivered without published_at next to
\* the published product 2: only the latter was processed
C16_Witness ==
    /\ Delivered /\ result = "ok"
    /\ "published_at" \notin DOMAIN ProductAt(1)
    /\ ~Unpublished(ProductAt(2))
    /\ "M/girls/100.jpg" \in DOMAIN remote
    /\ Len(calls) = 3
    /\ calls[3] = Call("put", "M/boys/200.jpg", "129 DH", "ok")

(***************************************************************************)
(* src/main.py: the orders webhook and the sheet it exports to.            *)
(*                                                                         *)
(* Sheet1 is a sequence of rows of twelve cells (columns A to L), the      *)
(* header row first.  A cell holds the text that was sent to it (order     *)
(* names start with "#", which USER_ENTERED stores as text).               *)
(***************************************************************************)
UpperMap ==
    [c \in CharsOf(LowerLetters) |->
        Char(Upper, CHOOSE i \in 1..Len(LowerLetters) : Char(LowerLetters, i) = c)]

UpperChar(c) == IF c \in DOMAIN UpperMap THEN UpperMap[c] ELSE c

RECURSIVE upper(_)
upper(s) == IF s = "" THEN "" ELSE UpperChar(Head(s)) \o upper(Tail(s))

RECURSIVE strip(_)
strip(s) ==
    IF s = "" THEN ""
    ELSE IF Char(s, 1) = " " THEN strip(SubSeq(s, 2, Len(s)))
    ELSE IF Char(s, Len(s)) = " " THEN strip(SubSeq(s, 1, Len(s) - 1))
    ELSE s

\* tags_str.split(",")
RECURSIVE split(_)
split(s) ==
    IF ~Contains(s, ",") THEN <<s>>
    ELSE LET i == CHOOSE i \in 1..Len(s) :
                      Char(s, i) = "," /\ \A k \in 1..(i - 1) : Char(s, k) # ","
         IN  <<SubSeq(s, 1, i - 1)>> \o split(SubSeq(s, i + 1, Len(s)))

\* current_tags = [t.strip().lower() for t in tags_str.split(",")]
current_tags_of(o) ==
    LET parts == split(Get(o, "tags", ""))
    IN  [i \in 1..Len(parts) |-> lower(strip(parts[i]))]

InList(x, list) == \E i \in 1..Len(list) : list[i] = x

TRIGGER_TAG == "pc"

\* the status of lines 175-181
status_of(o) ==
    IF Truthy(Get(o, "cancelled_at", None)) THEN "CANCELLED"
    ELSE IF Get(o, "fulfillment_status", None) = Some("fulfilled") THEN "FULFILLED"
    ELSE IF InList("ch", current_tags_of(o)) THEN "CH"
    ELSE ""

\* the API leaves the empty cells at the end of a row out of its answer
RECURSIVE trim_trailing(_)
trim_trailing(row) ==
    IF row = <<>> THEN row
    ELSE IF row[Len(row)] = "" THEN trim_trailing(SubSeq(row, 1, Len(row) - 1))
    ELSE row

\* values().get(range="Sheet1!A:K"): columns A to K, eleven cells at most per row
values_get(rows) == [i \in 1..Len(rows) |-> trim_trailing(SubSeq(rows[i], 1, 11))]

\* the first data row (row 2 onwards) whose column B is the order, 0 if none
find_row(rows, order_id) ==
    LET hits == {idx \in 2..Len(rows) : Len(rows[idx]) > 1 /\ rows[idx][2] = order_id}
    IN  IF hits = {} THEN 0 ELSE CHOOSE idx \in hits : \A other \in hits : idx <= other

\* apply_green_background: batchUpdate inside its own try/except
apply_green_background(st, row_index, color) ==
    IF color = "ok"
    THEN [Log(st, Call("batchUpdate", ToString(row_index), "green", "ok"))
             EXCEPT !.green = @ \cup {row_index}]
    ELSE Log(st, Call("batchUpdate", ToString(row_index), "green", color))

\* lines 166-198: mark the status of the order's row; any exception is caught
mark_status(st, o, out) ==
    IF out.get1 # "ok" THEN Log(st, Call("get", "Sheet1!A:K", "rows", out.get1))
    ELSE
        LET rows == values_get(st.sheet)
            read == Log(st, Call("get", "Sheet1!A:K", "rows", "ok"))
            idx == find_row(rows, Get(o, "name", ""))
        IN  IF idx = 0 THEN read
            ELSE
                LET row == rows[idx]
                    existing_status == IF Len(row) > 11 THEN row[12] ELSE ""
                    status == status_of(o)
                    update_range == "Sheet1!L" \o ToString(idx)
                IN  IF status # "" /\ upper(strip(existing_status)) # status
                    THEN IF out.update # "ok"
                         THEN Log(read, Call("update", update_range, status, out.update))
                         ELSE LET updated ==
                                      [Log(read, Call("update", update_range, status, "ok"))
                                          EXCEPT !.sheet[idx][12] = status]
                              IN  IF status = "FULFILLED"
                                  THEN apply_green_background(updated, idx, out.color)
                                  ELSE updated
                    ELSE read

\* datetime.strptime(created_at, '%Y-%m-%dT%H:%M:%S%z').strftime('%Y-%m-%d %H:%M')
strftime(created_at) == SubSeq(created_at, 1, 10) \o " " \o SubSeq(created_at, 12, 16)

\* what get_corrected_city answers for an order without shipping address
CityNote == "Could not match: ''"

\* the row of lines 236-249 for an order that carries no shipping address, no price,
\* no note and no line items
row_of(o) ==
    <<strftime(o.created_at), Get(o, "name", ""), "", "", "", "", "", "", "",
      Get(o, "tags", ""), CityNote, "">>

\* lines 219-262: a missing created_at (KeyError) and a failed append are caught
export_order(st, o, append) ==
    IF "created_at" \notin DOMAIN o THEN st
    ELSE IF append # "ok" THEN Log(st, Call("append", "Sheet1!A1", Get(o, "name", ""), append))
    ELSE [Log(st, Call("append", "Sheet1!A1", Get(o, "name", ""), "ok"))
             EXCEPT !.sheet = Append(@, row_of(o))]

\* order.get("fulfillment_status") == "fulfilled" or cancelled_at
is_closed_ignoring_closed_at(o) ==
    \/ Get(o, "fulfillment_status", None) = Some("fulfilled")
    \/ Truthy(Get(o, "cancelled_at", None))

\* order.get("fulfillment_status") == "fulfilled" or cancelled_at or closed_at
is_closed(o) ==
    \/ Get(o, "fulfillment_status", None) = Some("fulfilled")
    \/ Truthy(Get(o, "cancelled_at", None))
    \/ Truthy(Get(o, "closed_at", None))

Respond(st, response) == [st EXCEPT !.response = response]

\* out = [get1, update, color, get2, append]: what the Sheets API gives each call.
\* The read of line 205 is outside every try: its exception ends the request.
webhook_orders_updated(st, o, out) ==
    LET marked == mark_status(st, o, out)
    IN  IF ~InList(TRIGGER_TAG, current_tags_of(o)) THEN Respond(marked, "skipped")
        ELSE IF out.get2 # "ok"
        THEN Respond(Log(marked, Call("get", "Sheet1!A:K", "existing_orders", out.get2)),
                     out.get2)
        ELSE
            LET existing_orders == values_get(marked.sheet)
                read == Log(marked, Call("get", "Sheet1!A:K", "existing_orders", "ok"))
                order_ids == {existing_orders[i][2] :
                                 i \in {k \in 2..Len(existing_orders) :
                                           Len(existing_orders[k]) > 1}}
            IN  IF Get(o, "name", "") \in order_ids THEN Respond(read, "skipped")
                ELSE IF is_closed(o) THEN Respond(read, "skipped")
                ELSE Respond(export_order(read, o, out.append), "success")

(***************************************************************************)
(* The orders the shop delivers and the answers of the Sheets API          *)
(***************************************************************************)
Header ==
    <<"Date", "Order", "Name", "Phone", "Address", "Total", "City", "Items",
      "Notes", "Tags", "Note", "Status">>

OrderNames == {"#1001", "#1002"}
OrderTags == {"pc", "PC, ch", "pcx, vip"}
Timestamps == {None, Some("2024-05-02T09:00:00+01:00")}
FulfillmentStatuses == {None, Some("fulfilled")}

order1 ==
    [name |-> "#1001", tags |-> "pc", created_at |-> "2024-05-01T10:00:00+01:00",
     fulfillment_status |-> None, cancelled_at |-> None, closed_at |-> None]

AllOk == [get1 |-> "ok", update |-> "ok", color |-> "ok", get2 |-> "ok", append |-> "ok"]

\* one of the calls of the request raises HttpError
SheetFailures == {[AllOk EXCEPT ![c] = "HttpError"] : c \in DOMAIN AllOk}

OrderEdited(o) ==
    /\ o # order
    /\ order' = o
    /\ dirty' = TRUE
    /\ UNCHANGED <<payload, source, platform, dirs, files, remote, calls, result,
                   redelivered, option_values, size_result, cpc, cfolder, cseen,
                   unreadable, changed, sheet, green, pageVars>>

OrderTagsChange(values) == \E t \in values : OrderEdited([order EXCEPT !.tags = t])

OrderFulfillment ==
    \E f \in FulfillmentStatuses : OrderEdited([order EXCEPT !.fulfillment_status = f])

OrderCancellation == \E t \in Timestamps : OrderEdited([order EXCEPT !.cancelled_at = t])

\* another order is the one delivered next
OrderNamed(names) == \E n \in names : OrderEdited([order EXCEPT !.name = n])

(***************************************************************************)
(* One delivery: the whole of webhook_orders_updated for the order         *)
(***************************************************************************)
Webhook(out) ==
    LET st == webhook_orders_updated(
                  [sheet |-> sheet, green |-> green, calls |-> <<>>, response |-> ""],
                  order, out)
    IN  /\ sheet' = st.sheet
        /\ green' = st.green
        /\ calls' = st.calls
        /\ result' = st.response
        /\ redelivered' = (result # "none" /\ ~dirty)
        /\ dirty' = FALSE
        /\ UNCHANGED <<payload, source, platform, dirs, files, remote, option_values,
                       size_result, cpc, cfolder, cseen, unreadable, changed, order,
                       pageVars>>

WebhookDelivery(outcomes) == \E out \in outcomes : Webhook(out)

NoImages ==
    /\ payload = product1
    /\ source = "jpegA"
    /\ platform = Posix
    /\ NoPages
    /\ unreadable = {}
    /\ changed = <<>>
    /\ dirs = {}
    /\ files = <<>>
    /\ remote = <<>>
    /\ calls = <<>>
    /\ result = "none"
    /\ redelivered = FALSE
    /\ dirty = FALSE
    /\ option_values = <<>>
    /\ size_result = <<>>
    /\ cpc = <<>>
    /\ cfolder = <<>>
    /\ cseen = <<>>

(***************************************************************************)
(* SpecStatus: deliveries of one order while it gets the tag ch, is        *)
(* fulfilled and is cancelled, and while status writes and colourings fail.*)
(***************************************************************************)
InitStatus ==
    /\ NoImages
    /\ order = order1
    /\ sheet = <<Header>>
    /\ green = {}

NextStatus ==
    \/ WebhookDelivery({AllOk, [AllOk EXCEPT !.update = "HttpError"],
                        [AllOk EXCEPT !.color = "HttpError"]})
    \/ OrderTagsChange({"pc", "PC, ch"})
    \/ OrderFulfillment
    \/ OrderCancellation

SpecStatus == InitStatus /\ [][NextStatus]_vars

\* a delivery to the orders webhook (stuttering steps aside)
WebhookStep == order' = order /\ result' # "none" /\ ~dirty'

HasTag(o, tag) ==
    \/ tag = "pc" /\ o.tags \in {"pc", "PC, ch"}
    \/ tag = "ch" /\ o.tags = "PC, ch"

StatusOf(o) ==
    IF o.cancelled_at # None THEN "CANCELLED"
    ELSE IF o.fulfillment_status = Some("fulfilled") THEN "FULFILLED"
    ELSE IF HasTag(o, "ch") THEN "CH"
    ELSE ""

\* the rows of the sheet, header aside, whose column B is the order
RowsOf(rows, o) == {idx \in 2..Len(rows) : rows[idx][2] = o.name}

\* C18: a delivery writes the status cell of the order's row only when the computed
\* status is non-empty and differs from the status stored in that row, and colours
\* only with such a write: the same event delivered again writes and colours nothing.
C18_StatusWrittenOnlyOnChange ==
    [][WebhookStep
       => /\ NumOps(calls', "update") > 0
             => /\ StatusOf(order) # ""
                /\ \E idx \in RowsOf(sheet, order) : sheet[idx][12] # StatusOf(order)
          /\ NumOps(calls', "batchUpdate") > 0 => NumOps(calls', "update") > 0]_vars

(***************************************************************************)
(* SpecExport: deliveries of an order, with any tags, fulfilled, cancelled *)
(* or closed or not, with or without created_at, to a sheet that holds its *)
(* row, the row of another order or none, while calls of the API fail.     *)
(***************************************************************************)
ExportOrders ==
    {[name |-> "#1001", tags |-> t, fulfillment_status |-> f, cancelled_at |-> c,
      closed_at |-> d] :
        t \in OrderTags, f \in FulfillmentStatuses, c \in Timestamps, d \in Timestamps}

with_created_at(o) ==
    [k \in DOMAIN o \cup {"created_at"} |->
        IF k = "created_at" THEN order1.created_at ELSE o[k]]

InitExport ==
    /\ NoImages
    /\ order \in ExportOrders \cup {with_created_at(o) : o \in ExportOrders}
    /\ sheet \in {<<Header>>, <<Header, row_of(order1)>>,
                  <<Header, row_of([order1 EXCEPT !.name = "#1002"])>>}
    /\ green = {}

NextExport ==
    \/ WebhookDelivery({AllOk} \cup SheetFailures)
    \/ OrderNamed(OrderNames)

SpecExport == InitExport /\ [][NextExport]_vars

ColumnB(rows) == {rows[idx][2] : idx \in 2..Len(rows)}

IsFulfilledCancelledOrClosed(o) ==
    o.fulfillment_status = Some("fulfilled") \/ o.cancelled_at # None \/ o.closed_at # None

ExportGuard == HasTag(order, "pc") /\ order.name \notin ColumnB(sheet)
               /\ ~IsFulfilledCancelledOrClosed(order)

GuardReadFailed(cs) ==
    \E i \in DOMAIN cs : cs[i].op = "get" /\ cs[i].text = "existing_orders" /\ cs[i].res # "ok"

\* C19 as stated: a delivery appends a row only if the order is tagged pc, its id is
\* not in column B and it is neither fulfilled, cancelled nor closed; in every other
\* case the sheet gains no row and the response is {"skipped": true}.
C19_ExportGuard ==
    [][WebhookStep
       => /\ Len(sheet') > Len(sheet) => ExportGuard
          /\ ~ExportGuard => (Len(sheet') = Len(sheet) /\ result' = "skipped")]_vars

\* C19 amended: the same, the response being {"skipped": true} in every other case
\* in which the read of the sheet for the guard did not raise.
C19_ExportGuardUnlessReadFails ==
    [][WebhookStep
       => /\ Len(sheet') > Len(sheet)
             => (ExportGuard /\ sheet' = Append(sheet, row_of(order)))
          /\ ~ExportGuard
             => /\ Len(sheet') = Len(sheet)
                /\ ~GuardReadFailed(calls') => result' = "skipped"
                /\ GuardReadFailed(calls') => (HasTag(order, "pc") /\ result' = "HttpError")]_vars

\* C19's case: an open order tagged "PC, ch" was appended below the row of another order
C19_Witness ==
    /\ Delivered /\ result = "success"
    /\ order.tags = "PC, ch" /\ ~IsFulfilledCancelledOrClosed(order)
    /\ Len(sheet) = 3 /\ sheet[2][2] = "#1002" /\ sheet[3][2] = "#1001"
    /\ sheet[3][10] = "PC, ch"
    /\ calls[Len(calls)] = Call("append", "Sheet1!A1", "#1001", "ok")

(***************************************************************************)
(* SpecRace: the order delivered to NumWorkers workers at once, each       *)
(* running webhook_orders_updated one API call at a time; every call       *)
(* succeeds.  cseen[w] holds the row and status worker w computed.         *)
(***************************************************************************)
RaceUnchanged ==
    UNCHANGED <<payload, source, platform, dirs, files, remote, calls, result,
                redelivered, dirty, option_values, size_result, cfolder, unreadable,
                changed, order, pageVars>>

\* line 201: if TRIGGER_TAG not in current_tags: return skipped
after_marking == IF InList(TRIGGER_TAG, current_tags_of(order)) THEN "get2" ELSE "skipped"

\* lines 167-183: read the rows, find the order's row, compute the status
WorkerReadsRows(w) ==
    /\ cpc[w] = "get1"
    /\ LET rows == values_get(sheet)
           idx == find_row(rows, Get(order, "name", ""))
           existing_status == IF idx # 0 /\ Len(rows[idx]) > 11 THEN rows[idx][12] ELSE ""
           status == status_of(order)
       IN  IF idx # 0 /\ status # "" /\ upper(strip(existing_status)) # status
           THEN Step(w, "update") /\ cseen' = [cseen EXCEPT ![w] = [idx |-> idx, status |-> status]]
           ELSE Step(w, after_marking) /\ UNCHANGED cseen
    /\ UNCHANGED <<sheet, green>> /\ RaceUnchanged

\* lines 184-190: values().update of column L
WorkerUpdates(w) ==
    /\ cpc[w] = "update"
    /\ sheet' = [sheet EXCEPT ![cseen[w].idx][12] = cseen[w].status]
    /\ Step(w, IF cseen[w].status = "FULFILLED" THEN "color" ELSE after_marking)
    /\ UNCHANGED <<green, cseen>> /\ RaceUnchanged

\* lines 192-193: apply_green_background
WorkerColours(w) ==
    /\ cpc[w] = "color"
    /\ green' = green \cup {cseen[w].idx}
    /\ Step(w, after_marking)
    /\ UNCHANGED <<sheet, cseen>> /\ RaceUnchanged

\* lines 205-217: read the rows again, skip an order already there or closed;
\* line 221: a missing created_at ends the export
WorkerReadsOrderIds(w) ==
    /\ cpc[w] = "get2"
    /\ LET existing_orders == values_get(sheet)
       IN  Step(w, IF find_row(existing_orders, Get(order, "name", "")) # 0 THEN "skipped"
                   ELSE IF is_closed(order) THEN "skipped"
                   ELSE IF "created_at" \notin DOMAIN order THEN "success"
                   ELSE "append")
    /\ UNCHANGED <<sheet, green, cseen>> /\ RaceUnchanged

\* lines 251-257: values().append
WorkerAppends(w) ==
    /\ cpc[w] = "append"
    /\ sheet' = Append(sheet, row_of(order))
    /\ Step(w, "success")
    /\ UNCHANGED <<green, cseen>> /\ RaceUnchanged

RaceOrders ==
    {order1, [order1 EXCEPT !.tags = "PC, ch"],
     [order1 EXCEPT !.fulfillment_status = Some("fulfilled")],
     [order1 EXCEPT !.cancelled_at = Some("2024-05-02T09:00:00+01:00")],
     [order1 EXCEPT !.tags = "pcx, vip"]}

InitRace ==
    /\ payload = product1
    /\ source = "jpegA"
    /\ platform = Posix
    /\ NoPages
    /\ unreadable = {}
    /\ changed = <<>>
    /\ dirs = {}
    /\ files = <<>>
    /\ remote = <<>>
    /\ calls = <<>>
    /\ result = "none"
    /\ redelivered = FALSE
    /\ dirty = FALSE
    /\ option_values = <<>>
    /\ size_result = <<>>
    /\ cfolder = <<>>
    /\ order \in RaceOrders
    /\ sheet \in {<<Header>>, <<Header, row_of(order1)>>,
                  <<Header, row_of([order1 EXCEPT !.name = "#1002"])>>}
    /\ green = {}
    /\ cpc = [w \in Workers |-> "get1"]
    /\ cseen = [w \in Workers |-> [idx |-> 0, status |-> ""]]

NextRace ==
    \E w \in Workers :
        \/ WorkerReadsRows(w)
        \/ WorkerUpdates(w)
        \/ WorkerColours(w)
        \/ WorkerReadsOrderIds(w)
        \/ WorkerAppends(w)

SpecRace == InitRace /\ [][NextRace]_vars

\* C17: whatever the deliveries and their interleaving, the sheet holds at most one
\* exported row per order id.
C17_AtMostOneRowPerOrder ==
    \A idx \in 2..Len(sheet) : \A other \in 2..Len(sheet) :
        sheet[idx][2] = sheet[other][2] => idx = other

(***************************************************************************)
(* SpecPages: fetch_all_products against a shop whose answer to each page  *)
(* number is a list of products, an empty list, a body without products, a *)
(* status other than 200 or a broken connection.  One step is one turn of  *)
(* the while loop.  The shop has answers for pages 1..MaxPages; a run that *)
(* asks for a later page stands for a run that goes on.                    *)
(***************************************************************************)
MaxPages == 3

Responses ==
    {[status |-> 200, products |-> <<"p1">>],
     [status |-> 200, products |-> <<"p2", "p3">>],
     [status |-> 200, products |-> <<>>],
     [status |-> 200],
     [status |-> 500],
     [exc |-> "ConnectionError"]}

\* response.json().get("products", [])
batch_of(response) == Get(response, "products", <<>>)

\* status_code != 200 only
breaks_on_status(response) == response.status # 200

\* the two breaks of the loop: status_code != 200, not batch
breaks(response) == response.status # 200 \/ batch_of(response) = <<>>

\* one turn of the loop; `return products` follows a break at once
FetchPage ==
    /\ fpc = "loop"
    /\ page <= MaxPages
    /\ LET response == pages[page]
       IN  IF "exc" \in DOMAIN response
           THEN fpc' = response.exc /\ UNCHANGED <<page, all_products>>
           ELSE IF breaks(response)
           THEN fpc' = "returned" /\ UNCHANGED <<page, all_products>>
           ELSE /\ all_products' = all_products \o batch_of(response)
                /\ page' = page + 1
                /\ fpc' = "loop"
    /\ UNCHANGED <<payload, source, platform, dirs, files, remote, calls, result,
                   redelivered, dirty, option_values, size_result, cpc, cfolder, cseen,
                   unreadable, changed, orderVars, pages>>

InitPages ==
    /\ payload = product1
    /\ source = "jpegA"
    /\ platform = Posix
    /\ NoOrders
    /\ unreadable = {}
    /\ changed = <<>>
    /\ dirs = {}
    /\ files = <<>>
    /\ remote = <<>>
    /\ calls = <<>>
    /\ result = "none"
    /\ redelivered = FALSE
    /\ dirty = FALSE
    /\ option_values = <<>>
    /\ size_result = <<>>
    /\ cpc = <<>>
    /\ cfolder = <<>>
    /\ cseen = <<>>
    /\ pages \in [1..MaxPages -> Responses]
    /\ page = 1
    /\ all_products = <<>>
    /\ fpc = "loop"

NextPages == FetchPage

SpecPages == InitPages /\ [][NextPages]_vars

\* the loop has nothing to wait for: a turn that can be taken is taken
SpecPagesFair == SpecPages /\ WF_vars(FetchPage)

\* the source answers page k with products
AnswersMore(k) ==
    /\ "exc" \notin DOMAIN pages[k]
    /\ pages[k].status = 200
    /\ "products" \in DOMAIN pages[k] /\ pages[k].products # <<>>

\* the source answers page k, asked after the pages before it, with a status other
\* than 200 or with no product
AnswersLast(k) ==
    /\ "exc" \notin DOMAIN pages[k]
    /\ pages[k].status # 200 \/ "products" \notin DOMAIN pages[k] \/ pages[k].products = <<>>
    /\ \A j \in 1..(k - 1) : AnswersMore(j)

RECURSIVE PagesUpTo(_)
PagesUpTo(k) == IF k = 0 THEN <<>> ELSE PagesUpTo(k - 1) \o pages[k].products

\* C20: fetch_all_products returns once the source answers a page with a status other
\* than 200 or an empty list, and what it returns is the pages before that one, in
\* page order; against a source with products on every page it never returns.
C20_ReturnsAtFirstEmptyOrFailedPage ==
    /\ \A k \in 1..MaxPages :
          AnswersLast(k) ~> (fpc = "returned" /\ page = k /\ all_products = PagesUpTo(k - 1))
    /\ [](fpc = "returned" => \E k \in 1..MaxPages : AnswersLast(k) /\ page = k)
    /\ []((\A k \in 1..MaxPages : AnswersMore(k)) => fpc # "returned")

\* C20's case: two pages of products, then an empty page: returned in page order
C20_Witness ==
    /\ fpc = "returned" /\ page = 3
    /\ pages[3] = [status |-> 200, products |-> <<>>]
    /\ all_products = <<"p2", "p3", "p1">>

=============================================================================
